---- MODULE Spec2Model ----
(***************************************************************************)
(* Event planner: record store (events.json), CRUD operations and the      *)
(* reminder sweep (processReminders driven by node-cron every minute).     *)
(*                                                                         *)
(* Times are JavaScript time values: integer milliseconds, counted here    *)
(* from an arbitrary model epoch instead of 1970.  Strings are sequences   *)
(* of atoms: a digit, "-", " " or a run of letters such as "minutes".      *)
(***************************************************************************)
EXTENDS Integers, Sequences, FiniteSets, TLC

VARIABLES tz, clock, store, nextId, ticks, sweeps, log, inflight, deleted

vars == <<tz, clock, store, nextId, ticks, sweeps, log, inflight, deleted>>

-----------------------------------------------------------------------------
(* Program constants *)

\* setMinutes / setHours / setDate work in these units of the time value
MsPerMinute == 60000
MsPerHour == 3600000
MsPerDay == 86400000
\* if (timeDiff <= 60000)
ToleranceMs == 60000
\* cron.schedule('* * * * *', ...): one tick at every minute boundary
CronPeriodMs == 60000

-----------------------------------------------------------------------------
(* Bounds of the model *)

\* cron ticks (and so sweeps started) in one run
MaxTicks == 3
\* events ever created in one run
MaxEvents == 2
\* milliseconds the clock may run past a minute boundary before the next tick
MaxSkewMs == 2
\* reminders an event may come to hold through addReminder
MaxReminders == 2
\* operations that may be between their read and their write of the data
\* file at one time
MaxInflight == 2

-----------------------------------------------------------------------------
(* JavaScript values *)

\* a Number or a Date time value: NaN (Invalid Date) or an integer
NaN == [nan |-> TRUE, v |-> 0]
Num(n) == [nan |-> FALSE, v |-> n]

Digits == {"0", "1", "2", "3", "4", "5", "6", "7", "8", "9"}

DigitVal(c) ==
  CASE c = "0" -> 0 [] c = "1" -> 1 [] c = "2" -> 2 [] c = "3" -> 3
    [] c = "4" -> 4 [] c = "5" -> 5 [] c = "6" -> 6 [] c = "7" -> 7
    [] c = "8" -> 8 [] c = "9" -> 9

\* String.prototype.split(' '): the pieces between single spaces
RECURSIVE SplitFrom(_, _, _)
SplitFrom(s, i, cur) ==
  IF i > Len(s) THEN <<cur>>
  ELSE IF s[i] = " " THEN <<cur>> \o SplitFrom(s, i + 1, <<>>)
  ELSE SplitFrom(s, i + 1, Append(cur, s[i]))

Split(s) == SplitFrom(s, 1, <<>>)

\* the value of the longest run of digits of s that starts at position i,
\* given the value acc of the digits before i
RECURSIVE DigitRun(_, _, _)
DigitRun(s, i, acc) ==
  IF i <= Len(s) /\ s[i] \in Digits
    THEN DigitRun(s, i + 1, 10 * acc + DigitVal(s[i]))
    ELSE acc

\* parseInt(s): an optional minus sign, then the longest prefix of decimal
\* digits; NaN when there is no digit
parseInt(s) ==
  LET neg == Len(s) >= 1 /\ s[1] = "-"
      start == IF neg THEN 2 ELSE 1
  IN IF start <= Len(s) /\ s[start] \in Digits
       THEN Num((IF neg THEN -1 ELSE 1) * DigitRun(s, start, 0))
       ELSE NaN

-----------------------------------------------------------------------------
(* Date: local time of the server's time zone *)

\* The zone's offset from UTC is 0 before the instant tz.at and tz.shift
\* from then on (tz.shift = 0: a zone without daylight saving time).
LocalTZA(t) == IF t >= tz.at THEN tz.shift ELSE 0

LocalTime(t) == t + LocalTZA(t)

\* UTC(tlocal): a local time that occurs twice or never at the transition is
\* read with the offset in force before the transition
UTC(tl) ==
  IF tl < tz.at THEN tl
  ELSE IF tl - tz.shift >= tz.at THEN tl - tz.shift
  ELSE tl

\* new Date(`${event.date} ${event.time}`): the event's wall-clock reading,
\* parsed as local time; Invalid Date when the strings do not parse
EventDate(event) ==
  IF event.wall.nan THEN NaN ELSE Num(UTC(event.wall.v))

\* d.setMinutes(d.getMinutes() - n) and its like: the local time fields of d
\* moved back by n units, read back as local time
SetBack(d, n, unit) ==
  IF d.nan \/ n.nan THEN NaN
  ELSE Num(UTC(LocalTime(d.v) - n.v * unit))

-----------------------------------------------------------------------------
(* Reminder offset parsing and due detection (processReminders) *)

Minutes == <<"minutes">>
Hours == <<"hours">>
Days == <<"days">>

\* ReminderTime, were an unknown unit rejected instead of ignored
ReminderTimeStrict(eventDateTime, reminder) ==
  IF ~reminder.hasTime THEN [threw |-> TRUE, t |-> NaN]
  ELSE
    LET timeParts == Split(reminder.time)
        timeValue == parseInt(timeParts[1])
        hasUnit == Len(timeParts) >= 2
        timeUnit == IF hasUnit THEN timeParts[2] ELSE <<>>
    IN IF hasUnit /\ timeUnit = <<"minutes">>
         THEN [threw |-> FALSE, t |-> SetBack(eventDateTime, timeValue, MsPerMinute)]
       ELSE IF hasUnit /\ timeUnit = <<"hours">>
         THEN [threw |-> FALSE, t |-> SetBack(eventDateTime, timeValue, MsPerHour)]
       ELSE IF hasUnit /\ timeUnit = <<"days">>
         THEN [threw |-> FALSE, t |-> SetBack(eventDateTime, timeValue, MsPerDay)]
       ELSE [threw |-> TRUE, t |-> NaN]

\* reminder.time.split(' '), parseInt(timeParts[0]), timeParts[1] and the
\* switch on the unit: the reminder's trigger time.  threw: reminder.time is
\* undefined and .split raises a TypeError.
ReminderTime(eventDateTime, reminder) ==
  IF ~reminder.hasTime THEN [threw |-> TRUE, t |-> NaN]
  ELSE
    LET timeParts == Split(reminder.time)
        timeValue == parseInt(timeParts[1])
        hasUnit == Len(timeParts) >= 2
        timeUnit == IF hasUnit THEN timeParts[2] ELSE <<>>
    IN [threw |-> FALSE,
        t |-> IF hasUnit /\ timeUnit = Minutes
                THEN SetBack(eventDateTime, timeValue, MsPerMinute)
              ELSE IF hasUnit /\ timeUnit = Hours
                THEN SetBack(eventDateTime, timeValue, MsPerHour)
              ELSE IF hasUnit /\ timeUnit = Days
                THEN SetBack(eventDateTime, timeValue, MsPerDay)
              ELSE eventDateTime]

Abs(x) == IF x < 0 THEN -x ELSE x

\* IsEmail, were every type but 'notification' sent by mail
IsEmailUnlessNotification(reminder) == reminder.type # "notification"

\* reminder.type === 'email'
IsEmail(reminder) == reminder.type = "email"

\* IsDue, were the comparison timeDiff < 60000
IsDueExclusive(now, reminderTime) ==
  ~reminderTime.nan /\ Abs(now - reminderTime.v) < ToleranceMs

\* IsDue, were a sweep to remember that it has dispatched at this now
IsDueOncePerSweep(now, reminderTime) ==
  /\ ~reminderTime.nan /\ Abs(now - reminderTime.v) <= ToleranceMs
  /\ \A k \in 1..Len(log) : log[k].now # now

\* timeDiff = Math.abs(now - reminderTime); timeDiff <= 60000
\* (a NaN timeDiff compares false)
IsDue(now, reminderTime) ==
  ~reminderTime.nan /\ Abs(now - reminderTime.v) <= ToleranceMs

-----------------------------------------------------------------------------
(* Record store *)

\* what readDataFile returns when the file is missing or corrupt
DefaultData == [users |-> <<>>, categories |-> <<>>, events |-> <<>>]

\* readDataFile, were a failed read answered with the data last written
readDataFileStale(data, ok) == data

\* readDataFile: the parsed file, or the default structure when
\* fs.readFile or JSON.parse throws (ok = FALSE)
readDataFile(data, ok) == IF ok THEN data ELSE DefaultData

NoEmail == "null"

\* user ? user.email : null
UserEmail(data, userId) ==
  IF \E k \in 1..Len(data.users) : data.users[k].id = userId
    THEN LET k == CHOOSE k \in 1..Len(data.users) :
                    /\ data.users[k].id = userId
                    /\ \A m \in 1..(k - 1) : data.users[m].id # userId
         IN data.users[k].email
    ELSE NoEmail

\* IsUpcoming, were the comparison eventDate >= now
IsUpcomingInclusive(event, now) ==
  /\ ~EventDate(event).nan
  /\ EventDate(event).v >= now
  /\ Len(event.reminders) > 0

\* eventDate > now && event.reminders && event.reminders.length > 0
IsUpcoming(event, now) ==
  /\ ~EventDate(event).nan
  /\ EventDate(event).v > now
  /\ Len(event.reminders) > 0

RECURSIVE FilterUpcoming(_, _)
FilterUpcoming(events, now) ==
  IF events = <<>> THEN <<>>
  ELSE (IF IsUpcoming(Head(events), now) THEN <<Head(events)>> ELSE <<>>)
         \o FilterUpcoming(Tail(events), now)

\* the filter, then each event with its owner's email
getUpcomingReminders(data, now) ==
  LET kept == FilterUpcoming(data.events, now)
  IN [k \in 1..Len(kept) |->
        [id |-> kept[k].id, userId |-> kept[k].userId, wall |-> kept[k].wall,
         reminders |-> kept[k].reminders,
         userEmail |-> UserEmail(data, kept[k].userId)]]

-----------------------------------------------------------------------------
(* Record store: what each operation makes of the data it has read *)

\* Each operation works on the data readDataFile gave it and yields the data
\* it hands to writeDataFile (wrote: whether it calls writeDataFile at all)
\* and what it returns.  null and a found event are <<>> and <<event>>.
Null == <<>>

\* data.events.findIndex(event => event.id === eventId &&
\* event.userId === userId), counted from 1; 0 for -1
FindIndex(events, eventId, userId) ==
  IF \E k \in 1..Len(events) :
       events[k].id = eventId /\ events[k].userId = userId
    THEN CHOOSE k \in 1..Len(events) :
           /\ events[k].id = eventId /\ events[k].userId = userId
           /\ \A m \in 1..(k - 1) :
                ~(events[m].id = eventId /\ events[m].userId = userId)
    ELSE 0

\* getEventById: data.events.find(...) || null
getEventById(data, eventId, userId) ==
  LET k == FindIndex(data.events, eventId, userId)
  IN IF k = 0 THEN Null ELSE <<data.events[k]>>

\* createEvent: newEvent with id uuidv4() (here: id), pushed and written
EventCreated(data, in, id) ==
  LET newEvent == [id |-> id, userId |-> in.userId, wall |-> in.wall,
                   reminders |-> in.reminders]
  IN [data |-> [data EXCEPT !.events = Append(@, newEvent)],
      wrote |-> TRUE,
      result |-> <<newEvent>>]

\* { ...data.events[eventIndex], ...updateData }: every field the request
\* body has (updateData.has) replaces the event's, id and userId included
Spread(event, updateData) ==
  [id |-> IF "id" \in updateData.has THEN updateData.id ELSE event.id,
   userId |-> IF "userId" \in updateData.has
                THEN updateData.userId ELSE event.userId,
   wall |-> IF "wall" \in updateData.has THEN updateData.wall ELSE event.wall,
   reminders |-> IF "reminders" \in updateData.has
                   THEN updateData.reminders ELSE event.reminders]

\* updateEvent
EventUpdated(data, eventId, updateData, userId) ==
  LET eventIndex == FindIndex(data.events, eventId, userId)
  IN IF eventIndex = 0
       THEN [data |-> data, wrote |-> FALSE, result |-> Null]
       ELSE LET updated == Spread(data.events[eventIndex], updateData)
            IN [data |-> [data EXCEPT !.events[eventIndex] = updated],
                wrote |-> TRUE,
                result |-> <<updated>>]

\* data.events.filter(event => !(event.id === eventId &&
\* event.userId === userId))
RECURSIVE FilterOut(_, _, _)
FilterOut(events, eventId, userId) ==
  IF events = <<>> THEN <<>>
  ELSE (IF Head(events).id = eventId /\ Head(events).userId = userId
          THEN <<>> ELSE <<Head(events)>>)
         \o FilterOut(Tail(events), eventId, userId)

\* deleteEvent: false, and nothing written, when the filter removed nothing
EventDeleted(data, eventId, userId) ==
  LET kept == FilterOut(data.events, eventId, userId)
  IN IF Len(kept) = Len(data.events)
       THEN [data |-> data, wrote |-> FALSE, result |-> FALSE]
       ELSE [data |-> [data EXCEPT !.events = kept],
             wrote |-> TRUE,
             result |-> TRUE]

\* a reminder type that is missing (undefined)
NoType == "undefined"

\* reminderData.type || 'notification'
TypeOrDefault(type) ==
  IF type \in {NoType, ""} THEN "notification" ELSE type

\* the reminder addReminder builds (its own uuid and createdAt left out)
NewReminder(reminderData) ==
  [hasTime |-> reminderData.hasTime, time |-> reminderData.time,
   type |-> TypeOrDefault(reminderData.type)]

\* ReminderAdded, were the reminder put first (unshift)
ReminderAddedFirst(data, eventId, reminderData, userId) ==
  LET eventIndex == FindIndex(data.events, eventId, userId)
  IN IF eventIndex = 0
       THEN [data |-> data, wrote |-> FALSE, result |-> Null]
       ELSE LET reminders == <<NewReminder(reminderData)>>
                               \o data.events[eventIndex].reminders
                updated == [data.events[eventIndex] EXCEPT
                              !.reminders = reminders]
            IN [data |-> [data EXCEPT !.events[eventIndex] = updated],
                wrote |-> TRUE,
                result |-> <<updated>>]

\* addReminder: the reminder is pushed onto the event's reminders (a list
\* here, so the branch that makes a missing one [] has nothing to do)
ReminderAdded(data, eventId, reminderData, userId) ==
  LET eventIndex == FindIndex(data.events, eventId, userId)
  IN IF eventIndex = 0
       THEN [data |-> data, wrote |-> FALSE, result |-> Null]
       ELSE LET reminders == Append(data.events[eventIndex].reminders,
                                    NewReminder(reminderData))
                updated == [data.events[eventIndex] EXCEPT
                              !.reminders = reminders]
            IN [data |-> [data EXCEPT !.events[eventIndex] = updated],
                wrote |-> TRUE,
                result |-> <<updated>>]

\* data.categories.includes(category)
Includes(categories, category) ==
  \E k \in 1..Len(categories) : categories[k] = category

\* CategoryAdded, were the category pushed without the includes test
CategoryAddedAlways(data, category) ==
  [data |-> [data EXCEPT !.categories = Append(@, category)],
   wrote |-> TRUE,
   result |-> Append(data.categories, category)]

\* addCategory: pushed and written only when not yet in the list
CategoryAdded(data, category) ==
  IF Includes(data.categories, category)
    THEN [data |-> data, wrote |-> FALSE, result |-> data.categories]
    ELSE [data |-> [data EXCEPT !.categories = Append(@, category)],
          wrote |-> TRUE,
          result |-> Append(data.categories, category)]

\* registerUser: throws (result Null, nothing written) when the username
\* exists; else the new user with id uuidv4() (here: id) is pushed
UserRegistered(data, userData, id) ==
  IF \E k \in 1..Len(data.users) : data.users[k].username = userData.username
    THEN [data |-> data, wrote |-> FALSE, result |-> Null]
    ELSE LET newUser == [id |-> id, username |-> userData.username,
                         email |-> userData.email]
         IN [data |-> [data EXCEPT !.users = Append(@, newUser)],
             wrote |-> TRUE,
             result |-> <<newUser>>]

-----------------------------------------------------------------------------
(* Inputs of the model *)

\* the instant at which a zone with daylight saving time changes its offset
DstAt == 2 * MsPerDay

\* server time zones: none, clocks forward one hour, clocks back one hour
TimeZones ==
  {[at |-> DstAt, shift |-> 0],
   [at |-> DstAt, shift |-> MsPerHour],
   [at |-> DstAt, shift |-> -MsPerHour]}

\* wall-clock readings of events (date + time): one on a minute, one a
\* millisecond after it, one long past, and one that does not parse
LateWall == Num(DstAt + MsPerHour + MsPerMinute)
OddWall == Num(DstAt + MsPerHour + MsPerMinute + 1)
EarlyWall == Num(0)

\* the instant of an event at LateWall in the zone tz
LateInstant == UTC(LateWall.v)

\* a run begins on a minute boundary, this long before the event at LateWall:
\* two to four minutes, or two minutes more than an hour or a day
StartLeads ==
  {2 * MsPerMinute, 3 * MsPerMinute, 4 * MsPerMinute,
   MsPerHour + 2 * MsPerMinute,
   MsPerDay + 2 * MsPerMinute}

\* only u1 has a user record; u2 holds a token but the data file has no
\* record of it
InitUsers ==
  <<[id |-> "u1", username |-> "alice", email |-> "u1@example.com"]>>

Rem(time, type) == [hasTime |-> TRUE, time |-> time, type |-> type]

\* offset strings: "1 minutes", "2 minutes", "1 hours", "1 days", "0 minutes",
\* "1 hour", "abc minutes", "1 fortnights", "-1 minutes", "1  minutes", "2"
OffsetStrings ==
  {<<"1", " ", "minutes">>, <<"2", " ", "minutes">>, <<"1", " ", "hours">>,
   <<"1", " ", "days">>, <<"0", " ", "minutes">>, <<"1", " ", "hour">>,
   <<"abc", " ", "minutes">>, <<"1", " ", "fortnights">>,
   <<"-", "1", " ", "minutes">>, <<"1", " ", " ", "minutes">>, <<"2">>}

OneMinute == <<"1", " ", "minutes">>
ZeroMinutes == <<"0", " ", "minutes">>

\* a reminder stored without a time field
NoTimeReminder == [hasTime |-> FALSE, time |-> <<>>, type |-> "notification"]

\* what createEvent is called with: the caller, date + time, reminders
EventInputs ==
  {[userId |-> "u1", wall |-> LateWall,
    reminders |-> <<Rem(OneMinute, "email"), Rem(OneMinute, "notification")>>],
   [userId |-> "u2", wall |-> LateWall,
    reminders |-> <<Rem(OneMinute, "email")>>],
   [userId |-> "u1", wall |-> LateWall,
    reminders |-> <<Rem(OneMinute, "notification")>>]}

\* events the fetch filter tells apart: on the minute, a millisecond after
\* it, long past, without reminders, with a date that does not parse
FilterInputs ==
  {[userId |-> "u1", wall |-> LateWall,
    reminders |-> <<Rem(OneMinute, "notification")>>],
   [userId |-> "u1", wall |-> OddWall,
    reminders |-> <<Rem(ZeroMinutes, "notification")>>],
   [userId |-> "u1", wall |-> EarlyWall,
    reminders |-> <<Rem(OneMinute, "notification")>>],
   [userId |-> "u1", wall |-> LateWall, reminders |-> <<>>],
   [userId |-> "u1", wall |-> NaN,
    reminders |-> <<Rem(OneMinute, "notification")>>]}

\* events whose reminders createEvent stored as they came: a type that is
\* neither 'email' nor 'notification', no type, no time
ContentInputs ==
  {[userId |-> "u1", wall |-> LateWall,
    reminders |-> <<Rem(OneMinute, "email"), Rem(OneMinute, "sms")>>],
   [userId |-> "u1", wall |-> LateWall,
    reminders |-> <<Rem(OneMinute, NoType), Rem(OneMinute, "notification")>>],
   [userId |-> "u1", wall |-> LateWall,
    reminders |-> <<NoTimeReminder, Rem(OneMinute, "notification")>>]}

\* the users that hold a token
Callers == {"u1", "u2"}

\* the ids createEvent can have issued
EventIds == 1..MaxEvents

\* events created through the API by either user, with one reminder
StoreInputs ==
  {[userId |-> u, wall |-> LateWall,
    reminders |-> <<Rem(OneMinute, "notification")>>] : u \in Callers}

\* a request body for PUT /:id: the fields it has, and their values
Body(has, id, reminders) ==
  [has |-> has, id |-> id, userId |-> "", wall |-> NaN,
   reminders |-> reminders]

\* the update body {id: <id of the first event created>}
UpdateInputs == {Body({"id"}, 1, <<>>)}

\* events of two owners that can be told apart: u1's reminder is of type
\* 'notification', u2's of type 'email'
OwnerInputs ==
  {[userId |-> "u1", wall |-> LateWall,
    reminders |-> <<Rem(OneMinute, "notification")>>],
   [userId |-> "u2", wall |-> LateWall,
    reminders |-> <<Rem(OneMinute, "email")>>]}

\* update bodies {id: ..., userId: ...} with any issued id and any user
OwnerUpdates ==
  {[Body({"id", "userId"}, n, <<>>) EXCEPT !.userId = u] :
     n \in EventIds, u \in Callers}

\* bodies of POST /:id/reminders: '1 hour' with a type and without one
ReminderInputs ==
  {[hasTime |-> TRUE, time |-> <<"1", " ", "hour">>, type |-> "email"],
   [hasTime |-> TRUE, time |-> <<"1", " ", "hour">>, type |-> NoType]}

CategoryInputs == {"Work", "Personal", "Travel", "Family", "Health"}

\* an operation on the data file as it is called: which one, and its
\* arguments (those it does not take are left blank)
Request(op) ==
  [op |-> op, eventId |-> 0, userId |-> "",
   in |-> [userId |-> "", wall |-> NaN, reminders |-> <<>>],
   updateData |-> Body({}, 0, <<>>),
   reminderData |-> [hasTime |-> FALSE, time |-> <<>>, type |-> NoType],
   category |-> "",
   userData |-> [username |-> "", email |-> "", id |-> ""]]

\* the operations that may run at the same time: one call of each
\* operation that writes the data file, all about event 1 of u1
RaceRequests ==
  {[Request("createEvent") EXCEPT
      !.userId = "u1",
      !.in = [userId |-> "u1", wall |-> LateWall,
              reminders |-> <<Rem(OneMinute, "notification")>>]],
   [Request("updateEvent") EXCEPT
      !.eventId = 1, !.userId = "u1",
      !.updateData = Body({"reminders"}, 0, <<>>)],
   [Request("deleteEvent") EXCEPT !.eventId = 1, !.userId = "u1"],
   [Request("addReminder") EXCEPT
      !.eventId = 1, !.userId = "u1",
      !.reminderData = [hasTime |-> TRUE, time |-> <<"1", " ", "hour">>,
                        type |-> "email"]],
   [Request("addCategory") EXCEPT !.category = "Work"],
   [Request("registerUser") EXCEPT
      !.userData = [username |-> "bob", email |-> "bob@example.com",
                    id |-> "u2"]]}

\* one event with one reminder of any offset string
OffsetInputs ==
  {[userId |-> "u1", wall |-> LateWall,
    reminders |-> <<Rem(o, "notification")>>] : o \in OffsetStrings}

-----------------------------------------------------------------------------
(* State *)

\* a sweep: where it stands (pc), the candidates it fetched, the clock
\* readings of getUpcomingReminders (fetchNow) and of processReminders (now),
\* its place in the two loops, the sendMail failures it logged, whether
\* it ended in the catch and whether its read of the data file failed
IdleSweep == [pc |-> "idle", events |-> <<>>, fetchNow |-> 0, now |-> 0,
              i |-> 1, j |-> 1, failed |-> 0, error |-> FALSE,
              readFailed |-> FALSE]

Sweeps == 1..MaxTicks

Init ==
  /\ tz \in TimeZones
  /\ clock \in {LateInstant - lead : lead \in StartLeads}
  /\ store = [users |-> InitUsers, categories |-> <<>>, events |-> <<>>]
  /\ nextId = 1
  /\ ticks = 0
  /\ sweeps = [s \in Sweeps |-> IdleSweep]
  /\ log = <<>>
  /\ inflight = {}
  /\ deleted = {}

\* a run in a zone without daylight saving time, begun two or three minutes
\* before the event at LateWall
InitNear ==
  /\ tz = [at |-> DstAt, shift |-> 0]
  /\ clock \in {LateInstant - 2 * MsPerMinute, LateInstant - 3 * MsPerMinute}
  /\ store = [users |-> InitUsers, categories |-> <<>>, events |-> <<>>]
  /\ nextId = 1
  /\ ticks = 0
  /\ sweeps = [s \in Sweeps |-> IdleSweep]
  /\ log = <<>>
  /\ inflight = {}
  /\ deleted = {}

\* the API on its own: the zone and the clock play no part
InitStore ==
  /\ tz = [at |-> DstAt, shift |-> 0]
  /\ clock = LateInstant - 2 * MsPerMinute
  /\ store = [users |-> InitUsers, categories |-> <<>>, events |-> <<>>]
  /\ nextId = 1
  /\ ticks = 0
  /\ sweeps = [s \in Sweeps |-> IdleSweep]
  /\ log = <<>>
  /\ inflight = {}
  /\ deleted = {}

\* the event loop can run another callback only when no sweep is in the
\* middle of synchronous code or of a chain of resolved promises
EventLoopFree ==
  \A s \in Sweeps : sweeps[s].pc \notin {"fetched", "running", "done"}

InProgress(s) == sweeps[s].pc \in {"reading", "fetched", "running", "sending"}

-----------------------------------------------------------------------------
(* The clock *)

\* the clock runs on by one millisecond while a sweep is about to read it
\* (time that passes unobserved is made up by the next tick)
Elapse ==
  /\ \E s \in Sweeps : sweeps[s].pc \in {"reading", "fetched"}
  /\ clock % CronPeriodMs < MaxSkewMs
  /\ clock' = clock + 1
  /\ UNCHANGED <<tz, store, nextId, ticks, sweeps, log, inflight, deleted>>

-----------------------------------------------------------------------------
(* Record store operations *)

\* createEvent: a new event with a fresh id is appended and saved
createEvent(in) ==
  /\ EventLoopFree
  /\ nextId <= MaxEvents
  /\ store' = [store EXCEPT !.events =
                 Append(@, [id |-> nextId, userId |-> in.userId,
                            wall |-> in.wall, reminders |-> in.reminders])]
  /\ nextId' = nextId + 1
  /\ UNCHANGED <<tz, clock, ticks, sweeps, log, inflight, deleted>>

\* updateEvent, its read and write of the data file in one step
updateEvent(eventId, updateData, userId) ==
  LET out == EventUpdated(store, eventId, updateData, userId)
  IN /\ inflight = {}
     /\ store' = out.data
     /\ UNCHANGED <<tz, clock, nextId, ticks, sweeps, log, inflight, deleted>>

\* deleteEvent; a deletion that returned true is kept on record
deleteEvent(eventId, userId) ==
  LET out == EventDeleted(store, eventId, userId)
  IN /\ inflight = {}
     /\ store' = out.data
     /\ deleted' = IF out.result THEN deleted \cup {<<eventId, userId>>}
                                 ELSE deleted
     /\ UNCHANGED <<tz, clock, nextId, ticks, sweeps, log, inflight>>

\* addReminder
addReminder(eventId, reminderData, userId) ==
  LET out == ReminderAdded(store, eventId, reminderData, userId)
  IN /\ inflight = {}
     /\ \A k \in 1..Len(out.data.events) :
          Len(out.data.events[k].reminders) <= MaxReminders
     /\ store' = out.data
     /\ UNCHANGED <<tz, clock, nextId, ticks, sweeps, log, inflight, deleted>>

\* addCategory
addCategory(category) ==
  LET out == CategoryAdded(store, category)
  IN /\ inflight = {}
     /\ store' = out.data
     /\ UNCHANGED <<tz, clock, nextId, ticks, sweeps, log, inflight, deleted>>

-----------------------------------------------------------------------------
(* Record store operations, from read to write *)

\* what the operation of request r makes of the data it has read; id is
\* the uuid a new event gets
Outcome(r, data, id) ==
  LET out ==
        CASE r.op = "createEvent" -> EventCreated(data, r.in, id)
          [] r.op = "updateEvent" ->
               EventUpdated(data, r.eventId, r.updateData, r.userId)
          [] r.op = "deleteEvent" -> EventDeleted(data, r.eventId, r.userId)
          [] r.op = "addReminder" ->
               ReminderAdded(data, r.eventId, r.reminderData, r.userId)
          [] r.op = "addCategory" -> CategoryAdded(data, r.category)
          [] r.op = "registerUser" ->
               UserRegistered(data, r.userData, r.userData.id)
  IN [data |-> out.data, wrote |-> out.wrote,
      deleted |-> r.op = "deleteEvent" /\ out.wrote]

\* the calls of createEvent between their read and their write
CreatesInflight == {c \in inflight : c.req.op = "createEvent"}

\* const data = await readDataFile(): the operation begins and holds what
\* it has read while other callbacks run
ReadData(r) ==
  /\ Cardinality(inflight) < MaxInflight
  /\ r.op = "createEvent" =>
       nextId + Cardinality(CreatesInflight) <= MaxEvents
  /\ r.op = "addReminder" =>
       \A k \in 1..Len(store.events) :
         Len(store.events[k].reminders) < MaxReminders
  /\ inflight' = inflight \cup {[req |-> r, data |-> readDataFile(store, TRUE)]}
  /\ UNCHANGED <<tz, clock, store, nextId, ticks, sweeps, log, deleted>>

\* the rest of the operation: it changes the data it holds and, unless it
\* returns early, awaits writeDataFile(data), which replaces the file
WriteData(c) ==
  LET out == Outcome(c.req, c.data, nextId)
  IN /\ c \in inflight
     /\ inflight' = inflight \ {c}
     /\ store' = IF out.wrote THEN out.data ELSE store
     /\ nextId' = IF c.req.op = "createEvent" THEN nextId + 1 ELSE nextId
     /\ deleted' = IF out.deleted
                     THEN deleted \cup {<<c.req.eventId, c.req.userId>>}
                     ELSE deleted
     /\ UNCHANGED <<tz, clock, ticks, sweeps, log>>

-----------------------------------------------------------------------------
(* The reminder service *)

\* cron.schedule('* * * * *', async () => { await processReminders(); }):
\* at the next minute boundary the callback starts a sweep, whether or not
\* an earlier sweep has finished; the sweep first awaits the data file
\* (which is read well within the minute)
CronTick ==
  /\ EventLoopFree
  /\ \A s \in Sweeps : sweeps[s].pc # "reading"
  /\ ticks < MaxTicks
  /\ clock' = (clock \div CronPeriodMs + 1) * CronPeriodMs
  /\ ticks' = ticks + 1
  /\ sweeps' = [sweeps EXCEPT ![ticks + 1].pc = "reading"]
  /\ UNCHANGED <<tz, store, nextId, log, inflight, deleted>>

\* getUpcomingReminders: the file is read, now = new Date(), filter and map
FetchCandidates(s) ==
  /\ sweeps[s].pc = "reading"
  /\ EventLoopFree
  /\ sweeps' = [sweeps EXCEPT ![s].pc = "fetched",
                              ![s].fetchNow = clock,
                              ![s].events = getUpcomingReminders(store, clock)]
  /\ UNCHANGED <<tz, clock, store, nextId, ticks, log, inflight, deleted>>

\* getUpcomingReminders when the read of the data file fails: readDataFile
\* catches the error and the filter runs over the default structure
FetchAfterReadError(s) ==
  /\ sweeps[s].pc = "reading"
  /\ EventLoopFree
  /\ sweeps' = [sweeps EXCEPT
                  ![s].pc = "fetched",
                  ![s].fetchNow = clock,
                  ![s].readFailed = TRUE,
                  ![s].events =
                    getUpcomingReminders(readDataFile(store, FALSE), clock)]
  /\ UNCHANGED <<tz, clock, store, nextId, ticks, log, inflight, deleted>>

\* processReminders: const now = new Date(); an empty candidate list ends
\* the sweep
ReadNow(s) ==
  /\ sweeps[s].pc = "fetched"
  /\ sweeps' = [sweeps EXCEPT ![s].now = clock,
                  ![s].pc = IF sweeps[s].events = <<>> THEN "done" ELSE "running"]
  /\ UNCHANGED <<tz, clock, store, nextId, ticks, log, inflight, deleted>>

\* the sweep after the reminder at (i, j): the next reminder of the event,
\* the first reminder of the next event, or the end of the loops
Advance(sw) ==
  IF sw.j < Len(sw.events[sw.i].reminders)
    THEN [sw EXCEPT !.j = sw.j + 1, !.pc = "running"]
  ELSE IF sw.i < Len(sw.events)
    THEN [sw EXCEPT !.i = sw.i + 1, !.j = 1, !.pc = "running"]
  ELSE [sw EXCEPT !.pc = "done"]

\* what the notifier is called with
Entry(s, sw, channel) ==
  [sweep |-> s, event |-> sw.events[sw.i].id, rem |-> sw.j, now |-> sw.now,
   channel |-> channel]

\* the catch of processReminders: the error is logged and the sweep ends
Catch(sw) == [sw EXCEPT !.pc = "done", !.error = TRUE]

\* one pass of the inner loop body: the reminder's trigger time, the due
\* test and the dispatch by type
EvalReminder(s) ==
  LET sw == sweeps[s]
      event == sw.events[sw.i]
      reminder == event.reminders[sw.j]
      rt == ReminderTime(EventDate(event), reminder)
  IN /\ sw.pc = "running"
     /\ IF rt.threw
          THEN /\ sweeps' = [sweeps EXCEPT ![s] = Catch(sw)]
               /\ log' = log
        ELSE IF ~IsDue(sw.now, rt.t)
          THEN /\ sweeps' = [sweeps EXCEPT ![s] = Advance(sw)]
               /\ log' = log
        ELSE IF IsEmail(reminder)
          THEN IF event.userEmail = NoEmail
                 THEN \* sendEmailNotification: if (!userEmail) return;
                      /\ sweeps' = [sweeps EXCEPT ![s] = Advance(sw)]
                      /\ log' = Append(log, Entry(s, sw, "none"))
                 ELSE \* await transporter.sendMail(emailContent)
                      /\ sweeps' = [sweeps EXCEPT ![s].pc = "sending"]
                      /\ log' = Append(log, Entry(s, sw, "email"))
        ELSE /\ sweeps' = [sweeps EXCEPT ![s] = Advance(sw)]
             /\ log' = Append(log, Entry(s, sw, "log"))
     /\ UNCHANGED <<tz, clock, store, nextId, ticks, inflight, deleted>>

\* transporter.sendMail resolves
SendMailOk(s) ==
  /\ sweeps[s].pc = "sending"
  /\ EventLoopFree
  /\ sweeps' = [sweeps EXCEPT ![s] = Advance(sweeps[s])]
  /\ UNCHANGED <<tz, clock, store, nextId, ticks, log, inflight, deleted>>

\* AfterMailError, were the rejection to end the sweep
AfterMailErrorAbort(sw) == [sw EXCEPT !.failed = 1, !.pc = "done"]

\* the sweep after a sendMail rejection: caught and logged in
\* sendEmailNotification, the loops go on
AfterMailError(sw) == Advance([sw EXCEPT !.failed = 1])

\* transporter.sendMail rejects
SendMailFail(s) ==
  /\ sweeps[s].pc = "sending"
  /\ EventLoopFree
  /\ sweeps' = [sweeps EXCEPT ![s] = AfterMailError(sweeps[s])]
  /\ UNCHANGED <<tz, clock, store, nextId, ticks, log, inflight, deleted>>

\* the events other than those sweep s has dispatched a reminder of
RECURSIVE NotDispatchedBy(_, _)
NotDispatchedBy(events, s) ==
  IF events = <<>> THEN <<>>
  ELSE (IF \E k \in 1..Len(log) :
             log[k].sweep = s /\ log[k].event = Head(events).id
          THEN <<>> ELSE <<Head(events)>>)
         \o NotDispatchedBy(Tail(events), s)

\* Return, were the sweep to save the data file without the events it has
\* notified about
ReturnPruning(s) ==
  /\ sweeps[s].pc = "done"
  /\ sweeps' = [sweeps EXCEPT ![s] =
                  [IdleSweep EXCEPT !.pc = "finished",
                                    !.readFailed = sweeps[s].readFailed]]
  /\ store' = [store EXCEPT !.events = NotDispatchedBy(@, s)]
  /\ UNCHANGED <<tz, clock, nextId, ticks, log, inflight, deleted>>

\* processReminders has returned: the cron callback ends and the sweep's
\* locals are gone (readFailed stays as the record of the error readDataFile
\* swallowed)
Return(s) ==
  /\ sweeps[s].pc = "done"
  /\ sweeps' = [sweeps EXCEPT ![s] =
                  [IdleSweep EXCEPT !.pc = "finished",
                                    !.readFailed = sweeps[s].readFailed]]
  /\ UNCHANGED <<tz, clock, store, nextId, ticks, log, inflight, deleted>>

\* a step of a sweep that sends no mail
QuietStep ==
  \E s \in Sweeps :
    \/ FetchCandidates(s)
    \/ ReadNow(s)
    \/ EvalReminder(s)
    \/ Return(s)

MailStep ==
  \E s \in Sweeps :
    \/ SendMailOk(s)
    \/ SendMailFail(s)

-----------------------------------------------------------------------------
(* Specifications *)

\* the service with the events of EventInputs, each clock reading on the
\* minute
Next ==
  \/ \E in \in EventInputs : createEvent(in)
  \/ CronTick
  \/ QuietStep
  \/ MailStep

Spec == InitNear /\ [][Next]_vars

\* the service with one event, whose one reminder has any offset string, in
\* any zone
NextOffsets ==
  \/ \E in \in OffsetInputs : nextId = 1 /\ createEvent(in)
  \/ CronTick
  \/ Elapse
  \/ QuietStep

SpecOffsets == Init /\ [][NextOffsets]_vars

\* the service with the events of FilterInputs
NextFilter ==
  \/ \E in \in FilterInputs : createEvent(in)
  \/ CronTick
  \/ Elapse
  \/ QuietStep

SpecFilter == InitNear /\ [][NextFilter]_vars

\* the API for events, one request at a time
NextStore ==
  \/ \E in \in StoreInputs : createEvent(in)
  \/ \E eventId \in EventIds : \E updateData \in UpdateInputs :
       \E userId \in Callers : updateEvent(eventId, updateData, userId)
  \/ \E eventId \in EventIds : \E userId \in Callers :
       deleteEvent(eventId, userId)
  \/ \E eventId \in EventIds : \E reminderData \in ReminderInputs :
       \E userId \in Callers : addReminder(eventId, reminderData, userId)

SpecStore == InitStore /\ [][NextStore]_vars

\* the API for events of two users, one request at a time, with update
\* bodies that name an id and an owner
NextOwners ==
  \/ \E in \in OwnerInputs : createEvent(in)
  \/ \E eventId \in EventIds : \E updateData \in OwnerUpdates :
       \E userId \in Callers : updateEvent(eventId, updateData, userId)
  \/ \E eventId \in EventIds : \E userId \in Callers :
       deleteEvent(eventId, userId)
  \/ \E eventId \in EventIds : \E reminderData \in ReminderInputs :
       \E userId \in Callers : addReminder(eventId, reminderData, userId)

SpecOwners == InitStore /\ [][NextOwners]_vars

\* the API for categories, one request at a time
NextCategories == \E category \in CategoryInputs : addCategory(category)

SpecCategories == InitStore /\ [][NextCategories]_vars

\* the API with operations that overlap: each reads the file, and writes
\* it when the event loop comes back to it
NextRace ==
  \/ \E r \in RaceRequests : ReadData(r)
  \/ \E c \in inflight : WriteData(c)

SpecRace == InitStore /\ [][NextRace]_vars

\* the service with one event, stored before the first tick and never
\* changed, whose one reminder has any offset string, in any zone
NextDelivery ==
  \/ \E in \in OffsetInputs : ticks = 0 /\ nextId = 1 /\ createEvent(in)
  \/ CronTick
  \/ Elapse
  \/ QuietStep

SpecDelivery == Init /\ [][NextDelivery]_vars

\* a read of the data file by a sweep fails
ReadErrorStep == \E s \in Sweeps : FetchAfterReadError(s)

\* the service with the events of ContentInputs and a data file that may
\* fail to be read
NextService ==
  \/ \E in \in ContentInputs : createEvent(in)
  \/ CronTick
  \/ QuietStep
  \/ MailStep
  \/ ReadErrorStep

SpecService == InitNear /\ [][NextService]_vars

-----------------------------------------------------------------------------
(* Vocabulary of the properties *)

\* the sweeps whose locals exist: past the fetch and not yet returned
Live == {s \in Sweeps : sweeps[s].pc \in {"fetched", "running", "sending", "done"}}

\* the places (i, j) of the candidates' reminders of a sweep
Places(sw) ==
  UNION {{<<i, j>> : j \in 1..Len(sw.events[i].reminders)} :
           i \in 1..Len(sw.events)}

\* the sweep has gone through the loop body for the reminder at place p
Passed(sw, p) ==
  \/ sw.pc = "done" /\ ~sw.error
  \/ /\ sw.pc \in {"running", "sending"} \/ (sw.pc = "done" /\ sw.error)
     /\ \/ p[1] < sw.i
        \/ p[1] = sw.i /\ p[2] < sw.j
        \/ p[1] = sw.i /\ p[2] = sw.j /\ sw.pc = "sending"

\* the notifier was called by sweep s for reminder j of the event id
Dispatched(s, id, j) ==
  \E k \in 1..Len(log) :
    log[k].sweep = s /\ log[k].event = id /\ log[k].rem = j

\* the instant the code takes as the trigger of the reminder at place p
TriggerAt(sw, p) ==
  ReminderTime(EventDate(sw.events[p[1]]), sw.events[p[1]].reminders[p[2]]).t

\* the pieces of an offset string
Magnitude(time) == Split(time)[1]
HasUnit(time) == Len(Split(time)) >= 2
Unit(time) == Split(time)[2]

AllDigits(piece) == piece # <<>> /\ \A k \in 1..Len(piece) : piece[k] \in Digits

\* "<n> <unit>" with n a non-negative integer and a unit of the switch
ValidOffset(time) ==
  /\ Len(Split(time)) = 2
  /\ AllDigits(Magnitude(time))
  /\ Unit(time) \in {Minutes, Hours, Days}

\* the duration such an offset string stands for
OffsetMs(time) ==
  DigitRun(Magnitude(time), 1, 0) *
    (IF Unit(time) = Minutes THEN 60 * 1000
     ELSE IF Unit(time) = Hours THEN 3600 * 1000
     ELSE 86400 * 1000)

-----------------------------------------------------------------------------
(* C1 *)

\* C1: a sweep whose now is the event instant minus the n units of a valid
\* offset "<n> <unit>", and for which the event is a candidate, dispatches
\* the reminder.
C1_ExactTriggerDispatched ==
  \A s \in Live :
    LET sw == sweeps[s]
    IN sw.pc = "done" =>
         \A p \in Places(sw) :
           LET ev == sw.events[p[1]]
               r == ev.reminders[p[2]]
           IN (/\ r.hasTime
               /\ ValidOffset(r.time)
               /\ sw.now = EventDate(ev).v - OffsetMs(r.time))
                => Dispatched(s, ev.id, p[2])

-----------------------------------------------------------------------------
(* C2 *)

WithinTolerance(now, t) ==
  ~t.nan /\ now - t.v <= 60 * 1000 /\ t.v - now <= 60 * 1000

\* C2: a reminder the sweep has evaluated was dispatched if and only if
\* |now - trigger instant| <= 60 seconds, and nothing else was dispatched.
C2_DispatchedIffWithinTolerance ==
  \A s \in Live :
    LET sw == sweeps[s]
    IN \A p \in Places(sw) :
         /\ Dispatched(s, sw.events[p[1]].id, p[2]) => Passed(sw, p)
         /\ Passed(sw, p) =>
              (Dispatched(s, sw.events[p[1]].id, p[2])
                 <=> WithinTolerance(sw.now, TriggerAt(sw, p)))

\* a sweep has dispatched a reminder exactly 60 seconds from its trigger
\* instant, and a sweep has passed over one that is 60.001 seconds from it
C2_Witness ==
  /\ \E k \in 1..Len(log) : \E ev \in {store.events[m] : m \in 1..Len(store.events)} :
        /\ ev.id = log[k].event
        /\ Abs(log[k].now
                 - ReminderTime(EventDate(ev), ev.reminders[log[k].rem]).t.v)
             = 60 * 1000
  /\ \E s \in Live : \E p \in Places(sweeps[s]) :
        /\ Passed(sweeps[s], p)
        /\ ~TriggerAt(sweeps[s], p).nan
        /\ Abs(sweeps[s].now - TriggerAt(sweeps[s], p).v) = 60 * 1000 + 1
        /\ ~Dispatched(s, sweeps[s].events[p[1]].id, p[2])

-----------------------------------------------------------------------------
(* C3 *)

\* the dispatches of reminder j of the event id
DispatchesOf(id, j) ==
  {k \in 1..Len(log) : log[k].event = id /\ log[k].rem = j}

\* those made by sweeps that read the clock exactly on the minute
OnTheMinute(id, j) ==
  {k \in DispatchesOf(id, j) : log[k].now % (60 * 1000) = 0}

\* C3: sweeps that tick exactly every 60 seconds find a reminder due once,
\* and no reminder is ever dispatched more than twice.
C3_AtMostOncePerTrigger ==
  \A k \in 1..Len(log) :
    /\ Cardinality(OnTheMinute(log[k].event, log[k].rem)) <= 1
    /\ Cardinality(DispatchesOf(log[k].event, log[k].rem)) <= 2

-----------------------------------------------------------------------------
(* C8 *)

\* the magnitude of the offset string does not begin with an integer
MalformedMagnitude(time) ==
  LET m == Magnitude(time)
  IN ~(\/ Len(m) >= 1 /\ m[1] \in Digits
       \/ Len(m) >= 2 /\ m[1] = "-" /\ m[2] \in Digits)

\* C8: a sweep that has evaluated a reminder whose magnitude is not an
\* integer ends with an error.
C8_MalformedMagnitudeRaises ==
  \A s \in Live :
    LET sw == sweeps[s]
    IN sw.pc = "done" =>
         \A p \in Places(sw) :
           LET r == sw.events[p[1]].reminders[p[2]]
           IN (r.hasTime /\ MalformedMagnitude(r.time)) => sw.error

-----------------------------------------------------------------------------
(* C9 *)

UnrecognizedUnit(time) ==
  ~HasUnit(time) \/ Unit(time) \notin {Minutes, Hours, Days}

\* C9: a reminder whose unit is not minutes, hours or days has the event
\* instant as its trigger instant, raises no error, and is dispatched only
\* by sweeps whose now is within 60 seconds of the event instant.
C9_UnrecognizedUnitIsZeroOffset ==
  \A s \in Live :
    LET sw == sweeps[s]
    IN \A p \in Places(sw) :
         LET ev == sw.events[p[1]]
             r == ev.reminders[p[2]]
         IN (r.hasTime /\ UnrecognizedUnit(r.time)) =>
              /\ ReminderTime(EventDate(ev), r) = [threw |-> FALSE, t |-> EventDate(ev)]
              /\ (\A q \in Places(sw) : sw.events[q[1]].reminders[q[2]].hasTime)
                   => ~sw.error
              /\ Dispatched(s, ev.id, p[2]) =>
                   Abs(sw.now - EventDate(ev).v) <= 60 * 1000

\* a sweep has dispatched a reminder with an unrecognized unit
C9_Witness ==
  \E s \in Live : \E p \in Places(sweeps[s]) :
    LET ev == sweeps[s].events[p[1]]
    IN /\ ev.reminders[p[2]].hasTime
       /\ UnrecognizedUnit(ev.reminders[p[2]].time)
       /\ Dispatched(s, ev.id, p[2])
       /\ sweeps[s].pc = "done"

-----------------------------------------------------------------------------
(* C10 *)

OneHour == <<"1", " ", "hour">>

\* C10: a reminder "1 hour" is dispatched by a sweep whose now is one hour
\* before the event instant, and not by one whose now is the event instant.
C10_OneHourIsOneHour ==
  \A s \in Live :
    LET sw == sweeps[s]
    IN sw.pc = "done" =>
         \A p \in Places(sw) :
           LET ev == sw.events[p[1]]
               r == ev.reminders[p[2]]
           IN (r.hasTime /\ r.time = OneHour) =>
                /\ sw.now = EventDate(ev).v - 3600 * 1000
                     => Dispatched(s, ev.id, p[2])
                /\ sw.now = EventDate(ev).v => ~Dispatched(s, ev.id, p[2])

-----------------------------------------------------------------------------
(* C4 *)

\* the ids of a sequence of events, in order
Ids(events) == [k \in 1..Len(events) |-> events[k].id]

\* the stored events whose instant is after now and that have a reminder
RECURSIVE FutureWithReminders(_, _)
FutureWithReminders(events, now) ==
  IF events = <<>> THEN <<>>
  ELSE LET e == Head(events)
           keep == /\ ~e.wall.nan
                   /\ UTC(e.wall.v) - now >= 1
                   /\ e.reminders # <<>>
       IN (IF keep THEN <<e.id>> ELSE <<>>)
            \o FutureWithReminders(Tail(events), now)

\* C4: the candidates a sweep has just fetched are exactly the stored events
\* with an instant strictly after the fetch's now and a non-empty reminder
\* list; no sweep holds or dispatches for an event with instant <= now.
C4_CandidatesAreFutureEvents ==
  \A s \in Live :
    LET sw == sweeps[s]
    IN /\ sw.pc = "fetched" =>
            Ids(sw.events) = FutureWithReminders(store.events, sw.fetchNow)
       /\ \A i \in 1..Len(sw.events) :
            /\ ~EventDate(sw.events[i]).nan
            /\ EventDate(sw.events[i]).v > sw.fetchNow
       /\ \A k \in 1..Len(log) :
            log[k].sweep = s =>
              \E i \in 1..Len(sw.events) : sw.events[i].id = log[k].event

\* a fetch at the very instant of a stored event has left that event out
\* and kept a later one
C4_Witness ==
  \E s \in Live :
    /\ sweeps[s].pc = "fetched"
    /\ sweeps[s].events # <<>>
    /\ \E m \in 1..Len(store.events) :
         /\ store.events[m].reminders # <<>>
         /\ EventDate(store.events[m]) = Num(sweeps[s].fetchNow)
         /\ \A i \in 1..Len(sweeps[s].events) :
              sweeps[s].events[i].id # store.events[m].id

-----------------------------------------------------------------------------
(* C5 *)

\* C5: no sweep dispatches a reminder at a sweep time now that is later than
\* the instant of the reminder's event.
C5_NeverAfterTheEvent ==
  \A s \in Live :
    \A p \in Places(sweeps[s]) :
      Dispatched(s, sweeps[s].events[p[1]].id, p[2]) =>
        sweeps[s].now <= EventDate(sweeps[s].events[p[1]]).v

-----------------------------------------------------------------------------
(* C6 *)

\* C6: at most one execution of processReminders is in progress.
C6_SweepsNeverOverlap ==
  Cardinality({s \in Sweeps : InProgress(s)}) <= 1

-----------------------------------------------------------------------------
(* C7 *)

\* C7: a sweep in which a sendMail failed still ends with every reminder of
\* every candidate evaluated, and dispatched if it is due.
C7_MailFailureDoesNotAbort ==
  \A s \in Live :
    LET sw == sweeps[s]
    IN (sw.failed > 0 /\ sw.pc = "done") =>
         \A p \in Places(sw) :
           WithinTolerance(sw.now, TriggerAt(sw, p))
             => Dispatched(s, sw.events[p[1]].id, p[2])

\* a sweep in which a sendMail failed has ended, having dispatched after
\* the failed mail a later reminder of the same event and a reminder of a
\* later event
C7_Witness ==
  \E s \in Live :
    /\ sweeps[s].pc = "done"
    /\ sweeps[s].failed > 0
    /\ Len(sweeps[s].events) = 2
    /\ \E a, b, c \in 1..Len(log) :
         /\ a < b /\ b < c
         /\ log[a].sweep = s /\ log[b].sweep = s /\ log[c].sweep = s
         /\ log[a].channel = "email"
         /\ log[a].event = sweeps[s].events[1].id /\ log[a].rem = 1
         /\ log[b].event = sweeps[s].events[1].id /\ log[b].rem = 2
         /\ log[c].event = sweeps[s].events[2].id
         /\ \A k \in 1..Len(log) :
              (log[k].sweep = s /\ log[k].channel = "email") => k = a

-----------------------------------------------------------------------------
(* C11 *)

\* C11: a sweep whose read of the data file failed has no candidates,
\* dispatches nothing, does not end in an error and comes to its end; a
\* sweep whose read succeeded, whatever happened to the sweeps before it,
\* has the stored future events as its candidates and dispatches exactly
\* the reminders it has evaluated and found within the tolerance.
C11_ReadFailureCostsOneTick ==
  \A s \in Sweeps :
    LET sw == sweeps[s]
    IN /\ sw.readFailed =>
            /\ sw.events = <<>>
            /\ sw.pc \in {"fetched", "done", "finished"}
            /\ ~sw.error
            /\ \A k \in 1..Len(log) : log[k].sweep # s
       /\ (s \in Live /\ ~sw.readFailed) =>
            /\ sw.pc = "fetched" =>
                 Ids(sw.events) = FutureWithReminders(store.events, sw.fetchNow)
            /\ \A p \in Places(sw) :
                 Passed(sw, p) =>
                   (Dispatched(s, sw.events[p[1]].id, p[2])
                      <=> WithinTolerance(sw.now, TriggerAt(sw, p)))

\* a sweep's read failed while an event was stored, nothing was dispatched
\* by it, and the next sweep has dispatched a reminder of that event
C11_Witness ==
  \E s \in Sweeps :
    /\ s + 1 \in Live
    /\ sweeps[s].readFailed /\ sweeps[s].pc = "finished"
    /\ ~sweeps[s + 1].readFailed
    /\ \A k \in 1..Len(log) : log[k].sweep = s + 1
    /\ log # <<>>

-----------------------------------------------------------------------------
(* C12 *)

\* C12: a step of a sweep (one that starts it, moves it on or dispatches a
\* reminder) leaves the stored users, categories and events as they are and
\* issues no id, and a sweep starts with nothing but its place in the
\* schedule: no candidates, no clock reading, no record of earlier sweeps.
C12_SweepLeavesStoreAlone ==
  [][(sweeps' # sweeps \/ log' # log) =>
       /\ store' = store
       /\ nextId' = nextId
       /\ \A s \in Sweeps :
            (sweeps[s].pc = "idle" /\ sweeps'[s].pc # "idle") =>
              sweeps'[s] = [IdleSweep EXCEPT !.pc = "reading"]]_vars

\* a sweep has ended after a sendMail failure, and a reminder that an
\* earlier sweep had dispatched was dispatched again by it, from a store
\* that still holds the event
C12_Witness ==
  \E s \in Sweeps :
    /\ sweeps[s].pc = "done" /\ sweeps[s].failed > 0
    /\ \E a, b \in 1..Len(log) :
         /\ log[a].sweep < s /\ log[b].sweep = s
         /\ log[a].event = log[b].event /\ log[a].rem = log[b].rem
         /\ \E m \in 1..Len(store.events) : store.events[m].id = log[a].event

-----------------------------------------------------------------------------
(* C13 *)

\* the stored reminder a dispatch was made for
ReminderOf(entry) ==
  LET m == CHOOSE m \in 1..Len(store.events) : store.events[m].id = entry.event
  IN store.events[m].reminders[entry.rem]

\* the notifier's channels: sendEmailNotification (which sends the mail, or
\* returns at once when the owner has no address) and console.log
EmailChannel == {"email", "none"}
LogChannel == {"log"}

\* C13: every dispatch of a reminder of type 'email' goes to the email
\* channel, every dispatch of a reminder of any other type (or of none) goes
\* to the log channel, and no sweep dispatches one reminder twice.
C13_RoutedByType ==
  \A k \in 1..Len(log) :
    /\ ReminderOf(log[k]).type = "email" => log[k].channel \in EmailChannel
    /\ ReminderOf(log[k]).type # "email" => log[k].channel \in LogChannel
    /\ \A m \in 1..Len(log) :
         (/\ log[m].sweep = log[k].sweep
          /\ log[m].event = log[k].event
          /\ log[m].rem = log[k].rem) => m = k

\* reminders of type 'email', of type 'sms', of type 'notification' and
\* without a type have all been dispatched
C13_Witness ==
  \A t \in {"email", "sms", "notification", NoType} :
    \E k \in 1..Len(log) : ReminderOf(log[k]).type = t

-----------------------------------------------------------------------------
(* C14 *)

\* C14: no two stored events have the same id.
C14_EventIdsUnique ==
  \A a, b \in 1..Len(store.events) :
    store.events[a].id = store.events[b].id => a = b

-----------------------------------------------------------------------------
(* C15 *)

\* the events other than those with this id and owner, in order
RECURSIVE OtherEvents(_, _)
OtherEvents(events, d) ==
  IF events = <<>> THEN <<>>
  ELSE (IF Head(events).id # d[1] \/ Head(events).userId # d[2]
          THEN <<Head(events)>> ELSE <<>>)
         \o OtherEvents(Tail(events), d)

\* C15: once deleteEvent(id, owner) has returned true, getEventById(id,
\* owner) is null in every state from then on; and the deletion itself
\* leaves the other events, the users and the categories as they were.
C15_DeletedStaysDeleted ==
  [][/\ \A d \in deleted' : getEventById(store', d[1], d[2]) = Null
     /\ \A d \in deleted' \ deleted :
          /\ store'.events = OtherEvents(store.events, d)
          /\ store'.users = store.users
          /\ store'.categories = store.categories]_vars

-----------------------------------------------------------------------------
(* C16 *)

\* C16: a call of addReminder for an event the caller owns leaves every
\* other event, and every other field of that event, as it was, and makes
\* the event's reminders the old ones, in their order, followed by one
\* reminder with the given time and the given type, or 'notification' when
\* no type is given.
C16_AddReminderAppendsOne ==
  [][\A eventId \in EventIds : \A reminderData \in ReminderInputs :
       \A userId \in Callers :
         (/\ getEventById(store, eventId, userId) # Null
          /\ addReminder(eventId, reminderData, userId))
           => LET k == FindIndex(store.events, eventId, userId)
                  old == store.events[k].reminders
                  new == store'.events[k].reminders
              IN /\ Len(store'.events) = Len(store.events)
                 /\ \A m \in 1..Len(store.events) :
                      m # k => store'.events[m] = store.events[m]
                 /\ store'.events[k].id = store.events[k].id
                 /\ store'.events[k].userId = store.events[k].userId
                 /\ store'.events[k].wall = store.events[k].wall
                 /\ Len(new) = Len(old) + 1
                 /\ \A m \in 1..Len(old) : new[m] = old[m]
                 /\ new[Len(new)].time = reminderData.time
                 /\ new[Len(new)].type =
                      (IF reminderData.type = NoType THEN "notification"
                       ELSE reminderData.type)]_vars

\* an event created with a '1 minutes' reminder holds that reminder first,
\* then a '1 hour' reminder of type 'email' or, added without a type, of
\* type 'notification'
C16_Witness ==
  \E m \in 1..Len(store.events) :
    LET r == store.events[m].reminders
    IN /\ Len(r) = 2
       /\ r[1] = Rem(OneMinute, "notification")
       /\ r[2].time = <<"1", " ", "hour">>
       /\ r[2].type = "notification"

-----------------------------------------------------------------------------
(* C17 *)

\* how often a category is in the list
Count(categories, c) ==
  Cardinality({k \in 1..Len(categories) : categories[k] = c})

NoDuplicates(categories) ==
  \A a, b \in 1..Len(categories) : categories[a] = categories[b] => a = b

\* C17: after addCategory(c) the list holds c once; when c was in the list
\* the stored data is unchanged; and the list, which starts without
\* duplicates, never has any.
C17_AddCategoryIdempotent ==
  [][\A c \in CategoryInputs :
       addCategory(c) =>
         /\ Count(store'.categories, c) = 1
         /\ Count(store.categories, c) >= 1 => store' = store
         /\ NoDuplicates(store.categories) => NoDuplicates(store'.categories)
         /\ \A k \in 1..Len(store.categories) :
              store'.categories[k] = store.categories[k]]_vars

\* the list holds every category that has been added, each once (so that
\* every further addCategory is of a category already present)
C17_Witness ==
  /\ Len(store.categories) = Cardinality(CategoryInputs)
  /\ \A c \in CategoryInputs : Count(store.categories, c) = 1

-----------------------------------------------------------------------------
(* C18 *)

\* what an evaluation is made of: the event instant, the reminder's offset
\* and the sweep's now
EvalInputs(sw, p) ==
  <<EventDate(sw.events[p[1]]),
    sw.events[p[1]].reminders[p[2]].hasTime,
    sw.events[p[1]].reminders[p[2]].time,
    sw.now>>

\* C18: two evaluations made from the same event instant, offset and now,
\* in one sweep or in two, whatever was dispatched before them, end alike:
\* both reminders dispatched or neither.
C18_DueIsAFunctionOfItsInputs ==
  \A s1, s2 \in Live :
    \A p1 \in Places(sweeps[s1]) : \A p2 \in Places(sweeps[s2]) :
      (/\ Passed(sweeps[s1], p1)
       /\ Passed(sweeps[s2], p2)
       /\ EvalInputs(sweeps[s1], p1) = EvalInputs(sweeps[s2], p2))
        => (Dispatched(s1, sweeps[s1].events[p1[1]].id, p1[2])
              <=> Dispatched(s2, sweeps[s2].events[p2[1]].id, p2[2]))

\* after an earlier sweep has dispatched, a sweep has evaluated reminders of
\* two events from the same instant, offset and now, and dispatched both
C18_Witness ==
  \E s \in Live :
    /\ \E k \in 1..Len(log) : log[k].sweep < s
    /\ \E p1 \in Places(sweeps[s]) : \E p2 \in Places(sweeps[s]) :
         /\ p1[1] < p2[1]
         /\ Passed(sweeps[s], p1) /\ Passed(sweeps[s], p2)
         /\ EvalInputs(sweeps[s], p1) = EvalInputs(sweeps[s], p2)
         /\ Dispatched(s, sweeps[s].events[p1[1]].id, p1[2])
         /\ Dispatched(s, sweeps[s].events[p2[1]].id, p2[2])

-----------------------------------------------------------------------------
(* C19 *)

\* C19: a sweep that has ended has evaluated every reminder of every
\* candidate: each one that has a time within the tolerance of its trigger
\* was dispatched, whatever the other reminders hold.
C19_EveryReminderEvaluated ==
  \A s \in Live :
    LET sw == sweeps[s]
    IN sw.pc = "done" =>
         \A p \in Places(sw) :
           (/\ sw.events[p[1]].reminders[p[2]].hasTime
            /\ WithinTolerance(sw.now, TriggerAt(sw, p)))
             => Dispatched(s, sw.events[p[1]].id, p[2])

-----------------------------------------------------------------------------
(* C20 *)

\* C20: when an operation writes the data file, the stored data becomes
\* what that operation makes of the data stored at that moment: whatever
\* other operations have written since it read the file is still there.
C20_NoLostUpdates ==
  [][\A c \in inflight \ inflight' :
       store' = Outcome(c.req, store, nextId).data]_vars

-----------------------------------------------------------------------------
(* C21 *)

\* the clock when the service started: every tick since was one period
\* after the one before
StartClock == (clock \div (60 * 1000) - ticks) * (60 * 1000)

\* C21: an event stored since before the first tick, with a reminder
\* "<n> <unit>" (n >= 1) whose trigger instant, the event instant minus n
\* units, was then still to come: by the time a sweep finds the clock at or
\* past the event instant (from when on the event is never a candidate
\* again), some sweep has dispatched the reminder.
C21_DispatchedAtLeastOnce ==
  \A m \in 1..Len(store.events) :
    \A j \in 1..Len(store.events[m].reminders) :
      LET e == store.events[m]
          r == e.reminders[j]
      IN (/\ r.hasTime
          /\ ValidOffset(r.time)
          /\ OffsetMs(r.time) >= 60 * 1000
          /\ ~EventDate(e).nan
          /\ EventDate(e).v - OffsetMs(r.time) > StartClock
          /\ \E s \in Live : sweeps[s].fetchNow >= EventDate(e).v)
           => \E k \in 1..Len(log) : log[k].event = e.id /\ log[k].rem = j

-----------------------------------------------------------------------------
(* C22 *)

\* the stored events
Stored(data) == {data.events[m] : m \in 1..Len(data.events)}

\* the step is a call of updateEvent, deleteEvent or addReminder by user u
CallBy(u) ==
  \/ \E eventId \in EventIds : \E updateData \in OwnerUpdates :
       updateEvent(eventId, updateData, u)
  \/ \E eventId \in EventIds : deleteEvent(eventId, u)
  \/ \E eventId \in EventIds : \E reminderData \in ReminderInputs :
       addReminder(eventId, reminderData, u)

\* C22: getEventById for user u returns only events owned by u; and a call
\* of updateEvent, deleteEvent or addReminder by u, whatever its arguments,
\* leaves every event of another user v stored as it was, and every such
\* event that getEventById gave to v before the call is given to v after.
C22_OwnerIsolation ==
  [][\A u \in Callers :
       /\ \A eventId \in EventIds :
            getEventById(store, eventId, u) # Null =>
              getEventById(store, eventId, u)[1].userId = u
       /\ CallBy(u) =>
            \A e \in Stored(store) :
              e.userId # u =>
                /\ e \in Stored(store')
                /\ getEventById(store, e.id, e.userId) = <<e>> =>
                     getEventById(store', e.id, e.userId) = <<e>>]_vars

-----------------------------------------------------------------------------
(* C23 *)

\* the dispatches that are a delivery attempt: transporter.sendMail was
\* called, or console.log wrote the notification
DeliveryAttempts == {"email", "log"}

\* C23: for every reminder a sweep found due, that sweep made exactly one
\* delivery attempt, a mail handed to the transporter or a notification
\* written to the log, whether or not the owner of the event has a user
\* record with an email address.
C23_OneAttemptPerDueReminder ==
  \A k \in 1..Len(log) :
    Cardinality({m \in 1..Len(log) :
                   /\ log[m].sweep = log[k].sweep
                   /\ log[m].event = log[k].event
                   /\ log[m].rem = log[k].rem
                   /\ log[m].channel \in DeliveryAttempts}) = 1

====
